---- MODULE Spec2Model ----
(***************************************************************************)
(* Model of thread_safe_hash_table<K, V, hash_function>                    *)
(* (src/ThreadSafeHashTable.h): a vector of buckets, each a std::list of   *)
(* (key, value) pairs guarded by its own std::shared_mutex, plus one       *)
(* table-level std::shared_mutex.                                          *)
(*                                                                         *)
(* Threads call the public operations; every lock acquisition and every    *)
(* bucket method body is one step, so that all interleavings the two lock  *)
(* tiers allow are explored.  List nodes carry an identity (node) so that  *)
(* a returned V& / V* can be told apart from another entry with the same   *)
(* key and value.                                                          *)
(***************************************************************************)
EXTENDS Integers, Sequences, FiniteSets, TLC

\* ------------------------------------------------------------------ bounds
\* Threads sharing the table.
NumThreads == 2
\* Calls issued, in total, in a concurrent run.
MaxCalls == 2
\* Calls issued in a single-threaded run.
MaxSeqCalls == 4

Threads == 1..NumThreads
\* K = unsigned integers; 0 and 10 share bucket 0, 1 lives in bucket 1.
Keys == {0, 1, 10}
\* V = int; the values callers pass to insert/emplace.
Values == {1, 2}

\* ------------------------------------------------------- program constants
\* V(): the value-initialised int that operator[] inserts on a miss.
DefaultValue == 0
\* The null V* that Bucket::get_value returns on a miss (no node has id 0).
nullptr == 0
\* buckets_count(10) in the constructor's initialiser list.
InitialBucketsCount == 10

NoThread == 0

\* ------------------------------------------------------- std::shared_mutex
Unlocked == [writer |-> NoThread, readers |-> {}]

\* An exclusive acquisition that does not wait for the owners to leave.
CanLock_NoWait(mtx) == TRUE

\* lock(): blocks while any thread owns the mutex in either mode.
CanLock(mtx) == mtx.writer = NoThread /\ mtx.readers = {}

\* lock_shared(): blocks while a thread owns the mutex exclusively.
CanLockShared(mtx) == mtx.writer = NoThread

\* A guard whose destructor does not unlock: the owner stays the owner.
Release_Keep(mtx, t) == mtx

\* unlock() / unlock_shared() by the owner t.
Release(mtx, t) ==
    [writer |-> IF mtx.writer = t THEN NoThread ELSE mtx.writer,
     readers |-> mtx.readers \ {t}]

\* --------------------------------------------------------------- the state
VARIABLES
    data,           \* std::vector<Bucket>: sequence of [data: list, m: mutex]
    buckets_count,  \* size_t buckets_count
    m,              \* the table's std::shared_mutex
    pc,             \* per thread: position inside its current call
    op,             \* per thread: the public operation being (last) called
    key,            \* per thread: the key argument
    arg,            \* per thread: the value argument / constructed V
    index,          \* per thread: the local `index`
    method,         \* per thread: the Bucket method being (last) executed
    value,          \* per thread: the local `V* value` (node id or nullptr)
    ret,            \* per thread: the node whose value the returned V& aliases
    outcome,        \* per thread: how the last call ended
    created,        \* per thread: the node this call's push_back allocated
    seen,           \* per thread: the list as push_back found it
    nodes,          \* number of list nodes allocated so far
    calls,          \* number of calls issued so far
    aborted         \* the process was terminated by undefined behaviour

vars == <<data, buckets_count, m, pc, op, key, arg, index, method, value,
          ret, outcome, created, seen, nodes, calls, aborted>>

locals == <<op, key, arg, index, method, value, ret, outcome, created, seen>>

\* ------------------------------------------------------------ pure helpers
\* hash_function = std::hash<K>, the identity on integers.
Hash(k) == k

\* The index taken as the quotient of the hash by the slot count.
get_index_by_key_Div(k) == Hash(k) \div buckets_count

get_index_by_key(k) == Hash(k) % buckets_count

bucket_count == buckets_count

\* std::find_if over the list with the predicate data.first == key:
\* the position of the first match, or 0 for end().
find_if(list, k) ==
    IF \E i \in 1..Len(list) : list[i].first = k
    THEN CHOOSE i \in 1..Len(list) :
            /\ list[i].first = k
            /\ \A j \in 1..(i - 1) : list[j].first # k
    ELSE 0

\* data.erase(it, data.end()): everything from position i on is removed.
ListErase_Tail(list, i) == SubSeq(list, 1, i - 1)

\* std::list::erase(it): the list without the element at position i.
ListErase(list, i) ==
    [j \in 1..(Len(list) - 1) |-> IF j < i THEN list[j] ELSE list[j + 1]]

\* data[index] designates a live Bucket only when index < data.size().
InBounds(i) == i < Len(data)

\* Every index designating the first Bucket (one mutex for all keys).
Slot_First(i) == data[1]

\* The Bucket that data[index] designates (index is 0-based in the source).
Slot(i) == data[i + 1]

\* Bucket::erase taking std::shared_lock instead of std::lock_guard.
BucketLockMode_EraseShared(meth) ==
    CASE meth = "insert" -> "exclusive"
      [] meth = "emplace" -> "exclusive"
      [] OTHER -> "shared"

\* Bucket::get_value taking std::lock_guard instead of std::shared_lock.
BucketLockMode_GetValueExclusive(meth) ==
    CASE meth = "get_last_element" -> "shared"
      [] OTHER -> "exclusive"

\* The lock mode each Bucket method takes on Bucket::m.
BucketLockMode(meth) ==
    CASE meth = "insert" -> "exclusive"
      [] meth = "emplace" -> "exclusive"
      [] meth = "erase" -> "exclusive"
      [] meth = "get_value" -> "shared"
      [] meth = "get_last_element" -> "shared"

\* clear taking std::shared_lock like the per-key operations.
TableLockMode_ClearShared(o) == "shared"

\* The lock mode each public operation takes on the table's m.
TableLockMode(o) ==
    CASE o = "clear" -> "exclusive"
      [] OTHER -> "shared"

\* The Bucket method a public operation calls first.
FirstMethod(o) ==
    CASE o = "insert" -> "insert"
      [] o = "emplace" -> "emplace"
      [] o = "erase" -> "erase"
      [] o = "subscript" -> "get_value"
      [] OTHER -> "none"

\* A constructor that leaves the vector of buckets empty.
Init_EmptyVector ==
    /\ buckets_count = InitialBucketsCount
    /\ data = <<>>
    /\ m = Unlocked
    /\ pc = [t \in Threads |-> "idle"]
    /\ op = [t \in Threads |-> "none"]
    /\ key = [t \in Threads |-> 0]
    /\ arg = [t \in Threads |-> 0]
    /\ index = [t \in Threads |-> 0]
    /\ method = [t \in Threads |-> "none"]
    /\ value = [t \in Threads |-> nullptr]
    /\ ret = [t \in Threads |-> nullptr]
    /\ outcome = [t \in Threads |-> "none"]
    /\ created = [t \in Threads |-> nullptr]
    /\ seen = [t \in Threads |-> <<>>]
    /\ nodes = 0
    /\ calls = 0
    /\ aborted = FALSE

\* --------------------------------------------------------------------- Init
Init ==
    /\ buckets_count = InitialBucketsCount
    /\ data = [i \in 1..InitialBucketsCount |-> [data |-> <<>>, m |-> Unlocked]]
    /\ m = Unlocked
    /\ pc = [t \in Threads |-> "idle"]
    /\ op = [t \in Threads |-> "none"]
    /\ key = [t \in Threads |-> 0]
    /\ arg = [t \in Threads |-> 0]
    /\ index = [t \in Threads |-> 0]
    /\ method = [t \in Threads |-> "none"]
    /\ value = [t \in Threads |-> nullptr]
    /\ ret = [t \in Threads |-> nullptr]
    /\ outcome = [t \in Threads |-> "none"]
    /\ created = [t \in Threads |-> nullptr]
    /\ seen = [t \in Threads |-> <<>>]
    /\ nodes = 0
    /\ calls = 0
    /\ aborted = FALSE

\* ------------------------------------------------------- calling a method
\* A thread enters public operation o with arguments (k, v), unless `limit`
\* calls were issued already.  The locals of the previous call are dead;
\* `index` is computed before any lock is taken.
Begin(t, o, k, v, limit) ==
    /\ ~aborted
    /\ pc[t] = "idle"
    /\ calls < limit
    /\ calls' = calls + 1
    /\ op' = [op EXCEPT ![t] = o]
    /\ key' = [key EXCEPT ![t] = k]
    /\ arg' = [arg EXCEPT ![t] = v]
    /\ index' = [index EXCEPT ![t] = IF o = "clear" THEN 0 ELSE get_index_by_key(k)]
    /\ method' = [method EXCEPT ![t] = FirstMethod(o)]
    /\ value' = [value EXCEPT ![t] = nullptr]
    /\ ret' = [ret EXCEPT ![t] = nullptr]
    /\ created' = [created EXCEPT ![t] = nullptr]
    /\ outcome' = [outcome EXCEPT ![t] = "running"]
    /\ pc' = [pc EXCEPT ![t] = "lock"]
    /\ UNCHANGED <<data, buckets_count, m, seen, nodes, aborted>>

\* insert(K&& key, V&& value): size_t index = get_index_by_key(key);
CallInsert(t, limit) ==
    \E k \in Keys, v \in Values :
        /\ pc[t] = "idle"
        /\ Begin(t, "insert", k, v, limit)

\* emplace(K&& key, Args&&... args): the V built from args is v.
CallEmplace(t, limit) ==
    \E k \in Keys, v \in Values :
        /\ pc[t] = "idle"
        /\ Begin(t, "emplace", k, v, limit)

\* erase(K&& key)
CallErase(t, limit) ==
    \E k \in Keys :
        /\ pc[t] = "idle"
        /\ Begin(t, "erase", k, DefaultValue, limit)

\* operator[](K&& key)
CallSubscript(t, limit) ==
    \E k \in Keys :
        /\ pc[t] = "idle"
        /\ Begin(t, "subscript", k, DefaultValue, limit)

\* clear()
CallClear(t, limit) ==
    /\ pc[t] = "idle"
    /\ Begin(t, "clear", 0, DefaultValue, limit)

\* at(K&& key): its body applies -> to data[index], a Bucket, which has no
\* operator->; the member template is ill-formed when instantiated, so no
\* build contains a step of it.  A call is recorded with that outcome only.
CallAt(t, limit) ==
    \E k \in Keys :
        /\ ~aborted
        /\ pc[t] = "idle"
        /\ calls < limit
        /\ calls' = calls + 1
        /\ op' = [op EXCEPT ![t] = "at"]
        /\ key' = [key EXCEPT ![t] = k]
        /\ arg' = [arg EXCEPT ![t] = DefaultValue]
        /\ index' = [index EXCEPT ![t] = 0]
        /\ method' = [method EXCEPT ![t] = "none"]
        /\ value' = [value EXCEPT ![t] = nullptr]
        /\ ret' = [ret EXCEPT ![t] = nullptr]
        /\ created' = [created EXCEPT ![t] = nullptr]
        /\ outcome' = [outcome EXCEPT ![t] = "ill_formed"]
        /\ UNCHANGED <<data, buckets_count, m, pc, seen, nodes, aborted>>

\* ------------------------------------------------------------ table lock
\* Where a call continues once it owns the table lock.
AfterTableLock(o) == IF o = "clear" THEN "clear" ELSE "slot"

\* std::shared_lock lock(m);
LockTableShared(t) ==
    /\ ~aborted
    /\ pc[t] = "lock"
    /\ TableLockMode(op[t]) = "shared"
    /\ CanLockShared(m)
    /\ m' = [m EXCEPT !.readers = @ \cup {t}]
    /\ pc' = [pc EXCEPT ![t] = AfterTableLock(op[t])]
    /\ UNCHANGED <<data, buckets_count, locals, nodes, calls, aborted>>

\* std::lock_guard<std::shared_mutex> lock(m);
LockTableExclusive(t) ==
    /\ ~aborted
    /\ pc[t] = "lock"
    /\ TableLockMode(op[t]) = "exclusive"
    /\ CanLock(m)
    /\ m' = [m EXCEPT !.writer = t]
    /\ pc' = [pc EXCEPT ![t] = AfterTableLock(op[t])]
    /\ UNCHANGED <<data, buckets_count, locals, nodes, calls, aborted>>

\* clear emptying every bucket in place and keeping the slots.
VectorClear_InPlace(vec) == [i \in DOMAIN vec |-> [data |-> <<>>, m |-> vec[i].m]]

\* std::vector::clear(): every Bucket is destroyed, size() becomes 0.
VectorClear(vec) == <<>>

\* clear(): data.clear(); then the lock_guard releases m.
Clear(t) ==
    /\ ~aborted
    /\ pc[t] = "clear"
    /\ data' = VectorClear(data)
    /\ m' = Release(m, t)
    /\ pc' = [pc EXCEPT ![t] = "idle"]
    /\ outcome' = [outcome EXCEPT ![t] = "returned"]
    /\ UNCHANGED <<buckets_count, op, key, arg, index, method, value, ret,
                   created, seen, nodes, calls, aborted>>

\* A return that leaves the table lock owned: the shared_lock is leaked.
Return_NoUnlock(t) ==
    /\ ~aborted
    /\ pc[t] = "unlock"
    /\ pc' = [pc EXCEPT ![t] = "idle"]
    /\ outcome' = [outcome EXCEPT ![t] = IF @ = "ub" THEN "ub" ELSE "returned"]
    /\ UNCHANGED <<data, buckets_count, m, op, key, arg, index, method, value,
                   ret, created, seen, nodes, calls, aborted>>

\* The end of a per-key operation: the shared_lock on m is released.
Return(t) ==
    /\ ~aborted
    /\ pc[t] = "unlock"
    /\ m' = Release(m, t)
    /\ pc' = [pc EXCEPT ![t] = "idle"]
    /\ outcome' = [outcome EXCEPT ![t] = IF @ = "ub" THEN "ub" ELSE "returned"]
    /\ UNCHANGED <<data, buckets_count, op, key, arg, index, method, value,
                   ret, created, seen, nodes, calls, aborted>>

\* ----------------------------------------------------------- bucket tier
\* data with the Bucket at index i replaced by b.
WithSlot(i, b) == [data EXCEPT ![i + 1] = b]

\* Undefined behaviour (vector::operator[] past size(), list::back() on an
\* empty list): the build either terminates the process or lets the call run
\* on over storage that is no Bucket of the table and return.
Undefined(t, survives) ==
    /\ outcome' = [outcome EXCEPT ![t] = "ub"]
    /\ aborted' = ~survives
    /\ pc' = [pc EXCEPT ![t] = IF survives THEN "unlock" ELSE @]

\* data[index] with index >= data.size().
OutOfBounds(t) ==
    /\ ~aborted
    /\ pc[t] = "slot"
    /\ ~InBounds(index[t])
    /\ \E survives \in BOOLEAN : Undefined(t, survives)
    /\ UNCHANGED <<data, buckets_count, m, op, key, arg, index, method, value,
                   ret, created, seen, nodes, calls>>

\* data[index].<method>(...): std::lock_guard<std::shared_mutex> lock(m);
EnterExclusive(t) ==
    /\ ~aborted
    /\ pc[t] = "slot"
    /\ InBounds(index[t])
    /\ BucketLockMode(method[t]) = "exclusive"
    /\ CanLock(Slot(index[t]).m)
    /\ data' = WithSlot(index[t], [Slot(index[t]) EXCEPT !.m.writer = t])
    /\ pc' = [pc EXCEPT ![t] = "in"]
    /\ UNCHANGED <<buckets_count, m, locals, nodes, calls, aborted>>

\* data[index].<method>(...): std::shared_lock lock(m);
EnterShared(t) ==
    /\ ~aborted
    /\ pc[t] = "slot"
    /\ InBounds(index[t])
    /\ BucketLockMode(method[t]) = "shared"
    /\ CanLockShared(Slot(index[t]).m)
    /\ data' = WithSlot(index[t], [Slot(index[t]) EXCEPT !.m.readers = @ \cup {t}])
    /\ pc' = [pc EXCEPT ![t] = "in"]
    /\ UNCHANGED <<buckets_count, m, locals, nodes, calls, aborted>>

\* The pair that push_back links at the end of the list, in a fresh node.
NewEntry(t) == [first |-> key[t], second |-> arg[t], node |-> nodes + 1]

\* data.push_back({key, value}) links the new node after the node it found
\* last: the list it leaves is the list it found, plus the new entry.
PushBack(list, e) == Append(list, e)

\* push_back is no atomic step: first it reads where the list ends.
PushBackBegin(t) ==
    /\ ~aborted
    /\ pc[t] = "in"
    /\ method[t] \in {"insert", "emplace"}
    /\ InBounds(index[t])
    /\ seen' = [seen EXCEPT ![t] = Slot(index[t]).data]
    /\ pc' = [pc EXCEPT ![t] = "link"]
    /\ UNCHANGED <<data, buckets_count, m, op, key, arg, index, method, value,
                   ret, outcome, created, nodes, calls, aborted>>

\* The rest of Bucket::insert / Bucket::emplace: the node is linked and the
\* lock_guard releases m.  In operator[] the next statement calls
\* get_last_element on the same slot.
Push(t) ==
    LET b == Slot(index[t]) IN
    /\ data' = WithSlot(index[t], [data |-> PushBack(seen[t], NewEntry(t)),
                                   m |-> Release(b.m, t)])
    /\ nodes' = nodes + 1
    /\ created' = [created EXCEPT ![t] = nodes + 1]
    /\ seen' = [seen EXCEPT ![t] = <<>>]
    /\ IF op[t] = "subscript"
       THEN /\ method' = [method EXCEPT ![t] = "get_last_element"]
            /\ pc' = [pc EXCEPT ![t] = "slot"]
       ELSE /\ method' = method
            /\ pc' = [pc EXCEPT ![t] = "unlock"]
    /\ UNCHANGED <<buckets_count, m, op, key, arg, index, value, ret, outcome,
                   calls, aborted>>

\* Bucket::insert
BucketInsert(t) ==
    /\ ~aborted
    /\ pc[t] = "link"
    /\ method[t] = "insert"
    /\ InBounds(index[t])
    /\ Push(t)

\* Bucket::emplace
BucketEmplace(t) ==
    /\ ~aborted
    /\ pc[t] = "link"
    /\ method[t] = "emplace"
    /\ InBounds(index[t])
    /\ Push(t)

\* erase removing the last match instead of the first.
EraseFirst_Last(list, k) ==
    IF \E i \in 1..Len(list) : list[i].first = k
    THEN ListErase(list, CHOOSE i \in 1..Len(list) :
                            /\ list[i].first = k
                            /\ \A j \in (i + 1)..Len(list) : list[j].first # k)
    ELSE list

\* erase without the it != data.end() test: on a miss the last node goes.
EraseFirst_Unchecked(list, k) ==
    IF find_if(list, k) # 0 THEN ListErase(list, find_if(list, k))
    ELSE IF list = <<>> THEN list ELSE SubSeq(list, 1, Len(list) - 1)

\* The list Bucket::erase leaves: the first match removed, if there is one.
EraseFirst(list, k) ==
    IF find_if(list, k) # 0 THEN ListErase(list, find_if(list, k)) ELSE list

\* Bucket::erase
BucketErase(t) ==
    /\ ~aborted
    /\ pc[t] = "in"
    /\ method[t] = "erase"
    /\ InBounds(index[t])
    /\ LET b == Slot(index[t]) IN
       data' = WithSlot(index[t], [data |-> EraseFirst(b.data, key[t]),
                                   m |-> Release(b.m, t)])
    /\ pc' = [pc EXCEPT ![t] = "unlock"]
    /\ UNCHANGED <<buckets_count, m, locals, nodes, calls, aborted>>

\* What Bucket::get_value returns: the address of the first match's value
\* (the node that holds it), or nullptr.
get_value(list, k) ==
    IF find_if(list, k) # 0 THEN list[find_if(list, k)].node ELSE nullptr

\* Bucket::get_value as operator[] calls it: on a miss the next statement
\* inserts (key, V()); on a hit *value is what the call returns.
BucketGetValue(t) ==
    /\ ~aborted
    /\ pc[t] = "in"
    /\ method[t] = "get_value"
    /\ InBounds(index[t])
    /\ LET b == Slot(index[t])
           v == get_value(b.data, key[t])
       IN /\ data' = WithSlot(index[t], [b EXCEPT !.m = Release(b.m, t)])
          /\ value' = [value EXCEPT ![t] = v]
          /\ IF v = nullptr
             THEN /\ method' = [method EXCEPT ![t] = "insert"]
                  /\ arg' = [arg EXCEPT ![t] = DefaultValue]
                  /\ pc' = [pc EXCEPT ![t] = "slot"]
                  /\ ret' = ret
             ELSE /\ method' = method
                  /\ arg' = arg
                  /\ pc' = [pc EXCEPT ![t] = "unlock"]
                  /\ ret' = [ret EXCEPT ![t] = v]
    /\ UNCHANGED <<buckets_count, m, op, key, index, outcome, created, seen,
                   nodes, calls, aborted>>

\* get_last_element returning data.front().second.
get_last_element_Front(list) == list[1].node

\* data.back().second of a non-empty list: the last node's value.
get_last_element(list) == list[Len(list)].node

\* Bucket::get_last_element on a bucket that holds an entry.
BucketGetLast(t) ==
    /\ ~aborted
    /\ pc[t] = "in"
    /\ method[t] = "get_last_element"
    /\ InBounds(index[t])
    /\ Slot(index[t]).data # <<>>
    /\ LET b == Slot(index[t]) IN
       /\ data' = WithSlot(index[t], [b EXCEPT !.m = Release(b.m, t)])
       /\ ret' = [ret EXCEPT ![t] = get_last_element(b.data)]
    /\ pc' = [pc EXCEPT ![t] = "unlock"]
    /\ UNCHANGED <<buckets_count, m, op, key, arg, index, method, value,
                   outcome, created, seen, nodes, calls, aborted>>

\* Bucket::get_last_element on an empty bucket: data.back() is undefined.
BackOfEmptyList(t) ==
    /\ ~aborted
    /\ pc[t] = "in"
    /\ method[t] = "get_last_element"
    /\ InBounds(index[t])
    /\ Slot(index[t]).data = <<>>
    /\ LET b == Slot(index[t]) IN
       data' = WithSlot(index[t], [b EXCEPT !.m = Release(b.m, t)])
    /\ \E survives \in BOOLEAN : Undefined(t, survives)
    /\ UNCHANGED <<buckets_count, m, op, key, arg, index, method, value,
                   ret, created, seen, nodes, calls>>

\* --------------------------------------------------------- specifications
\* Every public operation, by any thread, in any interleaving.
Next ==
    \E t \in Threads :
        \/ CallInsert(t, MaxCalls)
        \/ CallEmplace(t, MaxCalls)
        \/ CallErase(t, MaxCalls)
        \/ CallSubscript(t, MaxCalls)
        \/ CallAt(t, MaxCalls)
        \/ CallClear(t, MaxCalls)
        \/ LockTableShared(t)
        \/ LockTableExclusive(t)
        \/ Clear(t)
        \/ OutOfBounds(t)
        \/ EnterExclusive(t)
        \/ EnterShared(t)
        \/ PushBackBegin(t)
        \/ BucketInsert(t)
        \/ BucketEmplace(t)
        \/ BucketErase(t)
        \/ BucketGetValue(t)
        \/ BucketGetLast(t)
        \/ BackOfEmptyList(t)
        \/ Return(t)

Spec == Init /\ [][Next]_vars

\* The per-key operations only: clear is never called.
NextNoClear ==
    \E t \in Threads :
        \/ CallInsert(t, MaxCalls)
        \/ CallEmplace(t, MaxCalls)
        \/ CallErase(t, MaxCalls)
        \/ CallSubscript(t, MaxCalls)
        \/ CallAt(t, MaxCalls)
        \/ LockTableShared(t)
        \/ EnterExclusive(t)
        \/ EnterShared(t)
        \/ PushBackBegin(t)
        \/ BucketInsert(t)
        \/ BucketEmplace(t)
        \/ BucketErase(t)
        \/ BucketGetValue(t)
        \/ BucketGetLast(t)
        \/ BackOfEmptyList(t)
        \/ Return(t)

SpecNoClear == Init /\ [][NextNoClear]_vars

\* insert calls only.
NextInsert ==
    \E t \in Threads :
        \/ CallInsert(t, MaxCalls)
        \/ LockTableShared(t)
        \/ EnterExclusive(t)
        \/ PushBackBegin(t)
        \/ BucketInsert(t)
        \/ Return(t)

SpecInsert == Init /\ [][NextInsert]_vars

\* insert and operator[] calls only: entries are added, never removed.
NextGrow ==
    \E t \in Threads :
        \/ CallInsert(t, MaxCalls)
        \/ CallSubscript(t, MaxCalls)
        \/ LockTableShared(t)
        \/ EnterExclusive(t)
        \/ EnterShared(t)
        \/ PushBackBegin(t)
        \/ BucketInsert(t)
        \/ BucketGetValue(t)
        \/ BucketGetLast(t)
        \/ Return(t)

SpecGrow == Init /\ [][NextGrow]_vars

\* One thread alone issuing per-key operations.
NextSeq ==
    \E t \in {1} :
        \/ CallInsert(t, MaxSeqCalls)
        \/ CallEmplace(t, MaxSeqCalls)
        \/ CallErase(t, MaxSeqCalls)
        \/ CallSubscript(t, MaxSeqCalls)
        \/ CallAt(t, MaxSeqCalls)
        \/ LockTableShared(t)
        \/ EnterExclusive(t)
        \/ EnterShared(t)
        \/ PushBackBegin(t)
        \/ BucketInsert(t)
        \/ BucketEmplace(t)
        \/ BucketErase(t)
        \/ BucketGetValue(t)
        \/ BucketGetLast(t)
        \/ Return(t)

SpecSeq == Init /\ [][NextSeq]_vars

\* ------------------------------------------------------------ vocabulary
\* t is inside a Bucket method's critical section (it owns Bucket::m).
Inside(t) == pc[t] \in {"in", "link"}

\* t is inside Bucket::insert, Bucket::emplace or Bucket::erase.
Writer(t) == Inside(t) /\ method[t] \in {"insert", "emplace", "erase"}

\* t is inside Bucket::get_value or Bucket::get_last_element.
Reader(t) == Inside(t) /\ method[t] \in {"get_value", "get_last_element"}

\* t is between acquiring and releasing the table lock in a per-key operation.
HoldsTableShared(t) == pc[t] \in {"slot", "in", "link", "unlock"}

\* t is inside clear's critical section.
InClear(t) == pc[t] = "clear"

\* No call is in progress.
AllIdle == \A t \in Threads : pc[t] = "idle"

\* The positions <<slot, place>> of all entries stored in the table.
Positions ==
    UNION {{<<i, j>> : j \in 1..Len(data[i].data)} : i \in 1..Len(data)}

\* The list nodes linked into some bucket.
Linked == {data[p[1]].data[p[2]].node : p \in Positions}

\* ------------------------------------------------------------------ claims
\* C1: per-bucket writer exclusion.  For every bucket, at most one thread is
\* inside Bucket::insert, Bucket::emplace or Bucket::erase on it, and while
\* one is, no other thread is inside any method of that bucket (so none is
\* inside get_value or get_last_element on it).
C1_WriterExclusion ==
    \A t1, t2 \in Threads :
        (t1 # t2 /\ Writer(t1) /\ Inside(t2)) => index[t1] # index[t2]

\* C1 witness: a thread is inside erase's critical section while another
\* has reached a call on the same bucket and waits for Bucket::m.
C1_Witness ==
    \E t1, t2 \in Threads :
        /\ t1 # t2
        /\ Writer(t1) /\ method[t1] = "erase"
        /\ pc[t2] = "slot" /\ index[t2] = index[t1]

\* C3: table-lock protocol.  Every access of a per-key operation to the slot
\* sequence happens with the table lock held shared, clear's with it held
\* exclusively; no thread is inside clear's critical section while another
\* holds the table lock; and a per-key operation waiting for the table lock
\* can take it whenever no clear is in its critical section, however many
\* per-key operations hold it.
C3_TableLockProtocol ==
    /\ \A t \in Threads : pc[t] \in {"slot", "in", "link"} => t \in m.readers
    /\ \A t \in Threads : InClear(t) => m.writer = t
    /\ \A t1, t2 \in Threads :
        (t1 # t2 /\ InClear(t1)) => (~HoldsTableShared(t2) /\ ~InClear(t2))
    /\ \A t \in Threads :
        (/\ ~aborted
         /\ pc[t] = "lock"
         /\ op[t] # "clear"
         /\ \A u \in Threads : ~InClear(u))
        => ENABLED LockTableShared(t)

\* C3 witness: a thread is inside clear's critical section while a per-key
\* operation of another thread waits for the table lock.
C3_Witness ==
    \E t1, t2 \in Threads :
        /\ t1 # t2
        /\ InClear(t1)
        /\ pc[t2] = "lock" /\ op[t2] # "clear"

\* C5: clear breaks the slot invariant.  The slot sequence has length 10 or
\* 0; once a clear has returned it has length 0 while bucket_count() is
\* still 10; and with length 0 no thread is inside a bucket, and every
\* per-key operation that reaches its data[index] (whenever it computed
\* index) is out of bounds: it cannot enter a bucket method, only the
\* undefined access is possible.
C5_ClearBreaksSlots ==
    /\ Len(data) \in {0, InitialBucketsCount}
    /\ (\E t \in Threads : op[t] = "clear" /\ outcome[t] = "returned")
        => Len(data) = 0
    /\ Len(data) = 0 =>
        /\ bucket_count = InitialBucketsCount
        /\ \A u \in Threads :
            /\ ~Inside(u)
            /\ pc[u] = "slot" =>
                /\ index[u] >= Len(data)
                /\ ~ENABLED EnterExclusive(u)
                /\ ~ENABLED EnterShared(u)
                /\ ~aborted => ENABLED OutOfBounds(u)

\* C5 witness: clear has returned and an insert by another thread then went
\* out of bounds.
C5_Witness ==
    \E t, u \in Threads :
        /\ t # u
        /\ op[t] = "clear" /\ outcome[t] = "returned"
        /\ op[u] = "insert" /\ outcome[u] = "ub"
        /\ Len(data) = 0

\* A completed insert call of t: its entry is the node it created.
InsertDone(t) ==
    op[t] = "insert" /\ pc[t] \in {"unlock", "idle"} /\ outcome[t] # "ub"

\* The entry of node n sits in the bucket of index i with key k and value v.
Holds(i, n, k, v) ==
    \E j \in 1..Len(Slot(i).data) :
        Slot(i).data[j] = [first |-> k, second |-> v, node |-> n]

\* C2: no lost inserts.  In runs of insert calls only: once all calls have
\* returned the table holds exactly one entry per call; no node is linked
\* twice; every entry sits in the bucket its key maps to (so a bucket that
\* all the keys map to holds all N entries); the entry of each thread's
\* latest completed insert is stored with the key and value supplied; and no
\* step changes or removes an entry already stored.
C2_NoLostInsert ==
    /\ [](/\ AllIdle => Cardinality(Positions) = calls
          /\ Cardinality(Linked) = Cardinality(Positions)
          /\ \A p \in Positions :
                get_index_by_key(data[p[1]].data[p[2]].first) = p[1] - 1
          /\ \A t \in Threads :
                InsertDone(t) => Holds(index[t], created[t], key[t], arg[t]))
    /\ [][\A i \in 1..Len(data) :
            /\ Len(data') = Len(data)
            /\ Len(data'[i].data) >= Len(data[i].data)
            /\ SubSeq(data'[i].data, 1, Len(data[i].data)) = data[i].data]_vars

\* C2 witness: all calls have returned, two threads inserted into the same
\* bucket, and that bucket holds one entry per call issued.
C2_Witness ==
    /\ AllIdle
    /\ calls = MaxCalls
    /\ \E t1, t2 \in Threads :
        /\ t1 # t2
        /\ InsertDone(t1) /\ InsertDone(t2)
        /\ index[t1] = index[t2]
        /\ Len(Slot(index[t1]).data) = MaxCalls

\* A call of operator[] by t that missed, inserted and got its reference.
SubscriptMissDone(t) ==
    /\ op[t] = "subscript"
    /\ value[t] = nullptr
    /\ pc[t] \in {"unlock", "idle"}
    /\ outcome[t] # "ub"

\* C4: default-accessor race.  In runs of insert and operator[] calls, the
\* reference operator[] returns after a miss is to an entry stored in the
\* key's bucket: the one the call created itself, or one that was linked
\* after it, never an older one.  That it can be another thread's entry for
\* a different key is C4_Witness.
C4_SubscriptReturnsLast ==
    \A t \in Threads :
        SubscriptMissDone(t) =>
            /\ created[t] # nullptr
            /\ ret[t] >= created[t]
            /\ \E j \in 1..Len(Slot(index[t]).data) :
                Slot(index[t]).data[j].node = ret[t]

\* C4 witness: thread A's operator[] on an absent key k returned a reference
\* to the entry thread B inserted for a different key k' of the same bucket,
\* not to the entry A created for k.
C4_Witness ==
    \E A, B \in Threads :
        /\ A # B
        /\ SubscriptMissDone(A)
        /\ InsertDone(B)
        /\ key[B] # key[A]
        /\ index[B] = index[A]
        /\ ret[A] = created[B]
        /\ ret[A] # created[A]

\* C6: get_last_element only ever runs on a non-empty bucket (no clear).
C6_GetLastOnNonEmpty ==
    \A t \in Threads :
        (pc[t] = "in" /\ method[t] = "get_last_element")
            => Slot(index[t]).data # <<>>

\* No thread is inside a method of the bucket of index i.
Vacant(i) == \A u \in Threads : Inside(u) => index[u] # i

\* C7: disjoint-bucket parallelism.  In runs of insert calls: an insert that
\* has reached its bucket can enter it whenever no thread is inside that
\* bucket, whichever threads are inside the critical sections of other
\* buckets; and once an insert has completed, its entry is stored under its
\* key with its value and a lookup of the key finds an entry: that very
\* entry, unless an earlier entry with the same key precedes it.
C7_DisjointBuckets ==
    /\ \A t \in Threads :
        (/\ pc[t] = "slot"
         /\ method[t] = "insert"
         /\ Vacant(index[t]))
        => ENABLED EnterExclusive(t)
    /\ \A t \in Threads :
        InsertDone(t) =>
            LET list == Slot(index[t]).data IN
            /\ Holds(index[t], created[t], key[t], arg[t])
            /\ get_value(list, key[t]) # nullptr
            /\ \/ get_value(list, key[t]) = created[t]
               \/ \E j \in 1..Len(list) :
                    list[j].first = key[t] /\ list[j].node < created[t]

\* C7 witness: two threads are inside the critical sections of insert on
\* two different buckets at the same time.
C7_Witness ==
    \E t1, t2 \in Threads :
        /\ t1 # t2
        /\ Writer(t1) /\ method[t1] = "insert"
        /\ Writer(t2) /\ method[t2] = "insert"
        /\ index[t1] # index[t2]

\* C8: shared readers.  A lookup that has reached its bucket can enter it
\* whenever no insert, emplace or erase is inside, however many lookups are;
\* it cannot enter while an insert, emplace or erase is inside; an insert,
\* emplace or erase cannot enter while any thread, lookup or not, is inside;
\* and no lookup is inside together with an insert, emplace or erase.
C8_SharedReaders ==
    \A t \in Threads :
        /\ (/\ ~aborted
            /\ pc[t] = "slot"
            /\ InBounds(index[t])
            /\ method[t] \in {"get_value", "get_last_element"})
           => (ENABLED EnterShared(t)
                <=> \A u \in Threads : Writer(u) => index[u] # index[t])
        /\ (/\ ~aborted
            /\ pc[t] = "slot"
            /\ InBounds(index[t])
            /\ method[t] \in {"insert", "emplace", "erase"})
           => (ENABLED EnterExclusive(t) <=> Vacant(index[t]))
        /\ Reader(t) => \A u \in Threads : Writer(u) => index[u] # index[t]

\* C8 witness: two threads are inside Bucket::get_value on the same bucket.
C8_Witness ==
    \E t1, t2 \in Threads :
        /\ t1 # t2
        /\ Reader(t1) /\ method[t1] = "get_value"
        /\ Reader(t2) /\ method[t2] = "get_value"
        /\ index[t1] = index[t2]

\* The list of entries stored for key k's bucket.
BucketOf(k) == Slot(get_index_by_key(k)).data

\* C9: strict accessor.  A single thread's completed at(key) has ended with
\* out_of_range when the key has no entry, and otherwise has returned a
\* reference to the first matching entry's value.
C9_StrictAccessor ==
    \A t \in Threads :
        (op[t] = "at" /\ pc[t] = "idle") =>
            IF get_value(BucketOf(key[t]), key[t]) = nullptr
            THEN outcome[t] = "out_of_range"
            ELSE /\ outcome[t] = "returned"
                 /\ ret[t] = get_value(BucketOf(key[t]), key[t])

\* The nodes of the entries stored under key k in list.
NodesOf(list, k) == {list[j].node : j \in {i \in 1..Len(list) : list[i].first = k}}

\* The node allocated first among a non-empty set of nodes.
Earliest(ns) == CHOOSE n \in ns : \A o \in ns : n <= o

\* list with the entry of node n taken out, the rest in the same order.
Without(list, n) == SelectSeq(list, LAMBDA e : e.node # n)

\* t is at the step that runs the body of Bucket::<meth>.
AtBody(t, meth) ==
    pc[t] = (IF meth = "erase" THEN "in" ELSE "link") /\ method[t] = meth

\* C10: duplicate keys, first match wins.  Bucket::insert appends its entry
\* whatever the list holds, after all entries stored; a lookup of k returns
\* the earliest-inserted entry with key k still stored; Bucket::erase of a
\* stored key removes exactly that entry and leaves the others and their
\* order as they were (so the next lookup returns the second-earliest).
C10_FirstMatchWins ==
    /\ [](\A k \in Keys :
            NodesOf(BucketOf(k), k) # {} =>
                get_value(BucketOf(k), k) = Earliest(NodesOf(BucketOf(k), k)))
    /\ [][\A t \in Threads :
            /\ (AtBody(t, "insert") /\ pc'[t] # pc[t]) =>
                /\ Len(BucketOf(key[t])') = Len(BucketOf(key[t])) + 1
                /\ SubSeq(BucketOf(key[t])', 1, Len(BucketOf(key[t])))
                     = BucketOf(key[t])
                /\ BucketOf(key[t])'[Len(BucketOf(key[t])')].first = key[t]
                /\ BucketOf(key[t])'[Len(BucketOf(key[t])')].second = arg[t]
            /\ (/\ AtBody(t, "erase") /\ pc'[t] # pc[t]
                /\ NodesOf(BucketOf(key[t]), key[t]) # {}) =>
                BucketOf(key[t])' =
                    Without(BucketOf(key[t]),
                            Earliest(NodesOf(BucketOf(key[t]), key[t])))]_vars

\* C10 witness: after insert(k, 1), insert(k, 2) and erase(k) the bucket
\* holds the second entry alone and a lookup of k returns it.
C10_Witness ==
    \E t \in Threads :
        /\ op[t] = "erase" /\ pc[t] = "idle"
        /\ nodes = 2
        /\ BucketOf(key[t]) = <<[first |-> key[t], second |-> 2, node |-> 2]>>
        /\ get_value(BucketOf(key[t]), key[t]) = 2

\* The table's contents: the entry sequence of every bucket.
Contents == [i \in 1..Len(data) |-> data[i].data]

\* The entry sequences of all buckets but the one of index i stay as they are.
OthersKept(i) ==
    /\ Len(data') = Len(data)
    /\ \A j \in 1..Len(data) : j # i + 1 => data'[j].data = data[j].data

\* t takes the step that runs the body of Bucket::<meth>.
BodyStep(t, meth) == AtBody(t, meth) /\ pc'[t] # pc[t]

\* C11: insert/lookup/erase round trip, one thread.  The body of an insert
\* of (k, v), k having no entry, leaves k's bucket as it was plus one entry
\* (k, v), which a lookup of k returns, and all other buckets as they were;
\* the body of an erase of k, k having exactly one entry (as after that
\* insert), leaves the bucket as it was minus that entry, a lookup of k
\* absent, and all other buckets as they were: so erase after insert
\* restores the contents the table had before the insert.
C11_RoundTrip ==
    [][\A t \in Threads :
        /\ (/\ BodyStep(t, "insert")
            /\ op[t] = "insert"
            /\ NodesOf(BucketOf(key[t]), key[t]) = {}) =>
            LET old == BucketOf(key[t])
                new == BucketOf(key[t])'
                n == get_value(BucketOf(key[t])', key[t])
            IN /\ n # nullptr
               /\ \E j \in 1..Len(new) :
                    new[j] = [first |-> key[t], second |-> arg[t], node |-> n]
               /\ Len(new) = Len(old) + 1
               /\ Without(new, n) = old
               /\ OthersKept(index[t])
        /\ (/\ BodyStep(t, "erase")
            /\ Cardinality(NodesOf(BucketOf(key[t]), key[t])) = 1) =>
            LET old == BucketOf(key[t])
                new == BucketOf(key[t])'
            IN /\ get_value(new, key[t]) = nullptr
               /\ Len(new) = Len(old) - 1
               /\ new = Without(old, get_value(old, key[t]))
               /\ OthersKept(index[t])]_vars

\* C11 witness: insert(k, v) into the empty table and then erase(k) have
\* returned, and the table is empty again.
C11_Witness ==
    \E t \in Threads :
        /\ op[t] = "erase" /\ pc[t] = "idle" /\ outcome[t] = "returned"
        /\ calls = 2
        /\ nodes = 1
        /\ Positions = {}

C13_SubscriptRoundTrip ==
    /\ [](\A t \in Threads :
            (/\ op[t] = "subscript"
             /\ pc[t] \in {"unlock", "idle"}) =>
                IF value[t] = nullptr
                THEN /\ created[t] # nullptr
                     /\ ret[t] = created[t]
                     /\ Holds(index[t], created[t], key[t], DefaultValue)
                     /\ NodesOf(BucketOf(key[t]), key[t]) = {created[t]}
                     /\ get_value(BucketOf(key[t]), key[t]) = ret[t]
                ELSE /\ created[t] = nullptr
                     /\ ret[t] = value[t]
                     /\ ret[t] = get_value(BucketOf(key[t]), key[t]))
    /\ [][\A t \in Threads :
            (op[t] = "subscript" /\ pc'[t] # pc[t] /\ Contents' # Contents) =>
                /\ value[t] = nullptr
                /\ NodesOf(BucketOf(key[t]), key[t]) = {}
                /\ Len(BucketOf(key[t])') = Len(BucketOf(key[t])) + 1
                /\ OthersKept(index[t])]_vars

\* C13 witness: a second operator[] with the same key has returned the one
\* entry the first created, with the default value.
C13_Witness ==
    \E t \in Threads :
        /\ op[t] = "subscript" /\ pc[t] = "idle" /\ outcome[t] = "returned"
        /\ calls = 2
        /\ nodes = 1
        /\ value[t] = 1
        /\ ret[t] = 1
        /\ BucketOf(key[t]) =
            <<[first |-> key[t], second |-> DefaultValue, node |-> 1]>>

\* The step is one of t's call: its position or its outcome changes.
Moves(t) == pc'[t] # pc[t] \/ outcome'[t] # outcome[t]

\* C14: routing.  Without clear: every entry stored in bucket i has a key
\* with hash(key) mod bucket_count = i; a thread between its table lock and
\* its return works on bucket hash(key) mod bucket_count; every step of a
\* call on key k leaves all buckets but that one (entries and mutex) as they
\* were; and a step that moves no thread (a repeated at) touches no bucket.
C14_Routing ==
    /\ [](/\ \A p \in Positions :
                Hash(data[p[1]].data[p[2]].first) % bucket_count = p[1] - 1
          /\ \A t \in Threads :
                pc[t] # "idle" => index[t] = Hash(key[t]) % bucket_count)
    /\ [][/\ Len(data') = Len(data)
          /\ \A t \in Threads :
                Moves(t) =>
                    \A j \in 1..Len(data) :
                        j # (Hash(key'[t]) % bucket_count) + 1 =>
                            data'[j] = data[j]
          /\ (\A t \in Threads : ~Moves(t)) => data' = data]_vars

\* C14 witness: calls on keys of different hash have stored entries in two
\* different buckets, each in the bucket of its key.
C14_Witness ==
    /\ AllIdle
    /\ \E k1, k2 \in Keys :
        /\ Hash(k1) % bucket_count # Hash(k2) % bucket_count
        /\ NodesOf(BucketOf(k1), k1) # {}
        /\ NodesOf(BucketOf(k2), k2) # {}

\* C15: fixed slot count.  The table starts with 10 empty buckets, and in
\* every state reachable by insert, emplace, erase, operator[] and at the
\* vector still has exactly 10 buckets and bucket_count() is 10.
C15_FixedSlotCount ==
    /\ Len(data) = InitialBucketsCount
    /\ bucket_count = InitialBucketsCount
    /\ calls = 0 => \A i \in 1..Len(data) : data[i] = [data |-> <<>>, m |-> Unlocked]

\* C15 witness: all calls of the run have been made and have finished, one
\* of them an erase and one the creation of an entry, and there are still
\* 10 buckets.
C15_Witness ==
    /\ AllIdle
    /\ calls = MaxCalls
    /\ nodes >= 1
    /\ \E t \in Threads : op[t] = "erase" /\ outcome[t] = "returned"
    /\ Len(data) = InitialBucketsCount

\* t owns the mutex, in either mode.
Owns(mtx, t) == mtx.writer = t \/ t \in mtx.readers

\* t owns neither the table lock nor any bucket lock.
HoldsNoLock(t) ==
    /\ ~Owns(m, t)
    /\ \A i \in 1..Len(data) : ~Owns(data[i].m, t)

\* t's call of operator[] has handed its reference to the caller.
HasReference(t) ==
    /\ op[t] = "subscript"
    /\ pc[t] = "idle"
    /\ outcome[t] = "returned"

\* C16: a dangling reference is reachable.  A thread that operator[] has
\* handed a reference owns no lock, of the table or of a bucket; and an
\* erase of the entry's key that has reached the bucket can enter it at
\* once, unless another call is inside that bucket at that moment: the
\* outstanding reference does not hold it back.  (The execution in which the
\* erase then removes the entry is C16_Witness.)
C16_ReferenceOutlivesLocks ==
    \A t \in Threads :
        HasReference(t) =>
            /\ ret[t] # nullptr
            /\ HoldsNoLock(t)
            /\ \A u \in Threads :
                (/\ op[u] = "erase"
                 /\ pc[u] = "slot"
                 /\ key[u] = key[t]
                 /\ ret[t] \in Linked
                 /\ Vacant(index[u])) => ENABLED EnterExclusive(u)

\* C16 witness: operator[] has returned a reference to a thread, and an
\* erase of the same key by another thread has since removed the entry the
\* reference points to.
C16_Witness ==
    \E t, u \in Threads :
        /\ t # u
        /\ HasReference(t)
        /\ ret[t] # nullptr
        /\ ret[t] \notin Linked
        /\ op[u] = "erase" /\ key[u] = key[t]
        /\ pc[u] = "idle" /\ outcome[u] = "returned"

\* Any step of t's current call, past the call itself.
ThreadStep(t) ==
    \/ LockTableShared(t)
    \/ LockTableExclusive(t)
    \/ Clear(t)
    \/ OutOfBounds(t)
    \/ EnterExclusive(t)
    \/ EnterShared(t)
    \/ PushBackBegin(t)
    \/ BucketInsert(t)
    \/ BucketEmplace(t)
    \/ BucketErase(t)
    \/ BucketGetValue(t)
    \/ BucketGetLast(t)
    \/ BackOfEmptyList(t)
    \/ Return(t)

\* The buckets whose lock t owns.
BucketLocksOf(t) == {i \in 1..Len(data) : Owns(data[i].m, t)}

\* C17: deadlock freedom.  In every interleaving of all operations: a thread
\* that owns a bucket lock owns the table lock (it took it first), no thread
\* owns two bucket locks, a thread in clear owns no bucket lock, and, as long
\* as undefined behaviour has not ended the process, either all threads are
\* idle or some thread with a call in progress can take a step.
C17_DeadlockFree ==
    /\ \A t \in Threads :
        /\ BucketLocksOf(t) # {} => Owns(m, t)
        /\ Cardinality(BucketLocksOf(t)) <= 1
        /\ op[t] = "clear" => BucketLocksOf(t) = {}
    /\ ~aborted =>
        \/ AllIdle
        \/ \E t \in Threads : pc[t] # "idle" /\ ENABLED ThreadStep(t)

\* C17 witness: one thread is inside a bucket holding its lock exclusively
\* while the other waits for the table lock that clear needs: the first can
\* step, the second cannot.
C17_Witness ==
    \E t, u \in Threads :
        /\ Writer(t)
        /\ BucketLocksOf(t) # {}
        /\ ENABLED ThreadStep(t)
        /\ op[u] = "clear" /\ pc[u] = "lock"
        /\ ~ENABLED ThreadStep(u)

\* operator[] calls only.
NextSubscript ==
    \E t \in Threads :
        \/ CallSubscript(t, MaxCalls)
        \/ LockTableShared(t)
        \/ EnterExclusive(t)
        \/ EnterShared(t)
        \/ PushBackBegin(t)
        \/ BucketInsert(t)
        \/ BucketGetValue(t)
        \/ BucketGetLast(t)
        \/ Return(t)

SpecSubscript == Init /\ [][NextSubscript]_vars

\* C18: no duplicate from the default accessor.  When entries are created
\* only through operator[], the bucket of every key holds at most one entry
\* with that key, also when two threads call operator[] with the same
\* absent key concurrently.
C18_NoDuplicate ==
    \A k \in Keys : Cardinality(NodesOf(BucketOf(k), k)) <= 1

\* C19: locks are scoped to one call.  An idle thread (also one whose last
\* call was at) owns no lock, so with no call in progress the table lock and
\* all bucket locks are free; and operator[] owns the table lock in shared
\* mode from its first bucket step to its return, and owns no bucket lock
\* between its get_value, insert and get_last_element steps.
C19_LocksScopedToCall ==
    /\ AllIdle =>
        /\ m = Unlocked
        /\ \A i \in 1..Len(data) : data[i].m = Unlocked
    /\ \A t \in Threads :
        /\ pc[t] = "idle" => HoldsNoLock(t)
        /\ (op[t] = "subscript" /\ HoldsTableShared(t)) =>
            /\ t \in m.readers
            /\ m.writer = NoThread
        /\ (op[t] = "subscript" /\ pc[t] = "slot") => BucketLocksOf(t) = {}

\* C19 witness: operator[] is between its insert and its get_last_element,
\* owning the table lock in shared mode and no bucket lock, while the other
\* thread has finished a call and is idle.
C19_Witness ==
    \E t, u \in Threads :
        /\ op[t] = "subscript"
        /\ pc[t] = "slot"
        /\ method[t] = "get_last_element"
        /\ t \in m.readers
        /\ BucketLocksOf(t) = {}
        /\ pc[u] = "idle" /\ outcome[u] = "returned"

\* All operations under fair scheduling: a thread whose call can take its
\* next step eventually takes it.
FairSpec == Spec /\ \A t \in Threads : WF_vars(ThreadStep(t))

\* C20: termination.  With finitely many calls per thread and fair
\* scheduling, every call that has started eventually returns.
C20_Termination ==
    \A t \in Threads : (pc[t] # "idle") ~> (pc[t] = "idle")

\* Every call that has started returns, or undefined behaviour ends the
\* process first: no call waits forever for a lock.
NoEndlessWait ==
    \A t \in Threads : (pc[t] # "idle") ~> (pc[t] = "idle" \/ aborted)

====
